---- MODULE Spec2Model ----
(***************************************************************************)
(* Process lifecycle manager of src/app.py: the dependency sniffer, the    *)
(* installer, the spawn worker (run_python_file), ManagedProcess.stop and  *)
(* the request handlers that drive them, over the shared registry          *)
(* `processes`.                                                            *)
(*                                                                         *)
(* Threads.  Every upload / start runs run_python_file on a thread of its  *)
(* own, every request is served on its own thread, and the atexit hook     *)
(* runs while those threads are still alive.  The code takes no lock, and  *)
(* the language promises no atomicity across statements (CPython up to     *)
(* 3.9 may switch threads after almost any instruction, free-threaded      *)
(* builds run them in parallel; CPython 3.10-3.12 with the GIL switches    *)
(* only at calls and loop edges).  A thread is therefore split wherever    *)
(* it blocks and between a test of shared state and the statement that     *)
(* relies on it:                                                           *)
(*   worker : read script | pip | Popen + line 149 | line 150 | done       *)
(*   stop   : `pid in processes` | processes[pid], `if self.process`,      *)
(*            signals | wait, kill, finally, `self.pid in processes` |     *)
(*            del processes[self.pid]                                      *)
(*   delete : snapshot | stop() of each run as above | remove the file     *)
(* Statements that follow one another without such a dependency are one    *)
(* step.  /api/processes writes nothing; what it answers is the state      *)
(* function api_processes.                                                 *)
(*                                                                         *)
(* Environment.  Run identities are distinct (uuid4), each stored name     *)
(* has one text, <pid>.log can always be opened, and a child's output is   *)
(* not part of `log`.  pip, Popen and the child decide their outcome       *)
(* freely.                                                                 *)
(*                                                                         *)
(* Text is a sequence of tokens.  A token is one separator character       *)
(* (" ", "\t", "\n", ".", ",", "=", "(", ")", "#") or an indivisible      *)
(* word, and no word of the alphabet is a prefix, suffix or concatenation  *)
(* of other words, so str.startswith, str.split and the substring test     *)
(* are exactly prefix, split and sub-sequence tests on tokens.             *)
(***************************************************************************)
EXTENDS Integers, Sequences, FiniteSets, TLC

(* ------------------------------ bounds --------------------------------- *)
MaxRuns == 2        \* run identities that can be generated
MaxRequests == 2    \* stop / delete / shutdown requests (one thread each)
MaxLines == 2       \* lines of a script given to the sniffer on its own

(* ------------------------- program constants --------------------------- *)
NoHandle == 0       \* ManagedProcess.process = None
NoPort == 0         \* ManagedProcess.port = None
BasePort == 5000

VARIABLES uploads, processes, run, child, signalled, log, worker, nextPid,
          thr, phase, sniffIn, sniffOut

vars == <<uploads, processes, run, child, signalled, log, worker, nextPid,
          thr, phase, sniffIn, sniffOut>>

(* ------------------------- text primitives ----------------------------- *)
Range(s) == {s[i] : i \in 1..Len(s)}

IsSpace(tok) == tok \in {" ", "\t", "\n"}

\* str.split(sep): pieces between separators, empty pieces kept
RECURSIVE SplitOn(_, _)
SplitOn(s, seps) ==
    IF s = <<>> THEN << <<>> >>
    ELSE LET rest == SplitOn(Tail(s), seps)
         IN  IF Head(s) \in seps THEN << <<>> >> \o rest
             ELSE << <<Head(s)>> \o rest[1] >> \o Tail(rest)

NonEmpty(piece) == piece # <<>>

\* str.split(): split on runs of whitespace, empty pieces dropped
SplitWords(s) == SelectSeq(SplitOn(s, {" ", "\t", "\n"}), NonEmpty)

RECURSIVE LStrip(_)
LStrip(s) == IF s # <<>> /\ IsSpace(Head(s)) THEN LStrip(Tail(s)) ELSE s

RECURSIVE RStrip(_)
RStrip(s) == IF s # <<>> /\ IsSpace(s[Len(s)])
             THEN RStrip(SubSeq(s, 1, Len(s) - 1)) ELSE s

\* str.strip()
Strip(s) == RStrip(LStrip(s))

\* str.startswith(prefix)
StartsWith(s, prefix) ==
    Len(s) >= Len(prefix) /\ SubSeq(s, 1, Len(prefix)) = prefix

\* `pat in s` on strings
Contains(s, pat) ==
    \E i \in 1..(Len(s) - Len(pat) + 1) : SubSeq(s, i, i + Len(pat) - 1) = pat

UpperWords == [Flask |-> "flask", Django |-> "django", SQLAlchemy |-> "sqlalchemy",
               Pillow |-> "pillow", App |-> "app", PORT |-> "port"]

\* str.lower(), word by word
LowerTok(tok) == IF tok \in DOMAIN UpperWords THEN UpperWords[tok] ELSE tok

Lower(s) == [i \in 1..Len(s) |-> LowerTok(s[i])]

(* --------------------------- dependency sniffer ------------------------ *)
common_imports ==
    [flask |-> "Flask", django |-> "Django", numpy |-> "numpy",
     pandas |-> "pandas", requests |-> "requests", matplotlib |-> "matplotlib",
     tensorflow |-> "tensorflow", torch |-> "torch", sklearn |-> "scikit-learn",
     sqlalchemy |-> "SQLAlchemy", bs4 |-> "beautifulsoup4", pillow |-> "Pillow"]

DefaultRequirement == "flask"

\* `module in common_imports` for module = parts[1].split('.')[0]
KnownModule(module) == Len(module) = 1 /\ module[1] \in DOMAIN common_imports

\* body of the `for line in lines` loop: what one line appends
LineRequirements(rawline) ==
    LET line == Strip(rawline)
        parts == SplitWords(line)
        module == SplitOn(parts[2], {"."})[1]
    IN  IF StartsWith(line, <<"import", " ">>) \/ StartsWith(line, <<"from", " ">>)
        THEN IF Len(parts) > 1 /\ KnownModule(module)
             THEN <<common_imports[module[1]]>> ELSE <<>>
        ELSE <<>>

RECURSIVE CollectRequirements(_)
CollectRequirements(lines) ==
    IF lines = <<>> THEN <<>>
    ELSE LineRequirements(Head(lines)) \o CollectRequirements(Tail(lines))

\* the list `requirements` just before the return statement
RequirementList(code) ==
    LET found == CollectRequirements(SplitOn(code, {"\n"}))
    IN  IF found = <<>> THEN <<DefaultRequirement>> ELSE found

\* lists without repetition whose elements are exactly S
Orderings(S) ==
    {q \in [1..Cardinality(S) -> S] : \A i, j \in 1..Cardinality(S) : q[i] = q[j] => i = j}

\* list(set(requirements)): the order of the result is not specified
get_requirements_from_code(code) == Orderings(Range(RequirementList(code)))

(* ------------------------------ scripts -------------------------------- *)
HelloCode == <<"print", "(", "hi", ")">>
ServerCode == <<"import", " ", "flask", "\n", "app", ".", "run", "(", ")">>
BatchCode == <<"import", " ", "requests">>

\* the scripts that are uploaded, by the name they are stored under
Content == ("hello.py" :> HelloCode) @@ ("batch.py" :> BatchCode)

Filenames == DOMAIN Content

\* run identities: those the concurrent specification hands out, and one more
\* (never handed out there; the third run of the sequential specification)
PIDs == 1..(MaxRuns + 1)
Thr == 1..MaxRequests

(* ------------------------------ state ---------------------------------- *)
\* uploads   : the stored scripts, name -> text (UPLOAD_FOLDER)
\* processes : keys of the dict `processes`, in insertion order
\* run       : the ManagedProcess objects, by pid
\* child     : the OS process started for a pid: "none", "alive", "exited"
\* signalled : a SIGTERM or SIGKILL has been sent to a live child
\* log       : lines written to <pid>.log by the worker
\* worker    : the run_python_file thread of a pid
\* thr       : the threads serving stop / delete requests and the atexit hook
\*             (snap: the runs the request found registered for its target;
\*              mark: the first identity not yet generated when a delete
\*              request returned)
\* phase     : "up", "cleanup" (atexit running), "exited"
Registered == Range(processes)

\* result: what run_python_file returned; why: the step that made it fail
IdleWorker == [pc |-> "idle", filename |-> "", code |-> <<>>, server |-> FALSE,
               port |-> NoPort, result |-> "none", why |-> ""]

IdleThread == [kind |-> "none", pc |-> "idle", pid |-> 0, file |-> "",
               todo |-> <<>>, snap |-> {}, flash |-> "", exc |-> "", mark |-> 0]

InitProgram ==
    /\ uploads = << >>
    /\ processes = <<>>
    /\ run = << >>
    /\ child = [p \in PIDs |-> "none"]
    /\ signalled = [p \in PIDs |-> FALSE]
    /\ log = [p \in PIDs |-> <<>>]
    /\ worker = [p \in PIDs |-> IdleWorker]
    /\ nextPid = 1
    /\ thr = [t \in Thr |-> IdleThread]
    /\ phase = "up"

Init ==
    /\ InitProgram
    /\ sniffIn = <<>>
    /\ sniffOut = <<>>

SniffVars == <<sniffIn, sniffOut>>

(* ------------------- ManagedProcess.__init__ --------------------------- *)
\* mutation: the port argument is not stored
ManagedProcess_DropsPort(filename, port) ==
    [filename |-> filename, port |-> NoPort, process |-> NoHandle]

ManagedProcess(filename, port) ==
    [filename |-> filename, port |-> port, process |-> NoHandle]

(* ------------------------ spawn: upload / start ------------------------ *)
\* pid = str(uuid.uuid4())[:8]
\* threading.Thread(target=run_python_file, args=(filename, pid)).start()
StartWorker(filename) ==
    /\ nextPid \in PIDs
    /\ worker' = [worker EXCEPT ![nextPid] = [IdleWorker EXCEPT !.pc = "read",
                                                           !.filename = filename]]
    /\ nextPid' = nextPid + 1

upload_file(f) ==
    /\ phase = "up"
    /\ uploads' = (f :> Content[f]) @@ uploads
    /\ StartWorker(f)
    /\ UNCHANGED <<processes, run, child, signalled, log, thr, phase, SniffVars>>

start_file(f) ==
    /\ phase = "up"
    /\ f \in DOMAIN uploads
    /\ StartWorker(f)
    /\ UNCHANGED <<uploads, processes, run, child, signalled, log, thr, phase, SniffVars>>

(* --------------------------- run_python_file --------------------------- *)
WorkerDone(p, res, why) ==
    worker' = [worker EXCEPT ![p].pc = "done", ![p].result = res, ![p].why = why]

\* the `except Exception` handler: f.write(f"Error: {str(e)}\n")
LogError(p) == log' = [log EXCEPT ![p] = Append(@, "Error")]

\* with open(filepath, 'r') as f: code = f.read()
\* (FileNotFoundError ends the thread when the script is gone);
\* the worker then sits in the installer
ReadScript(p) ==
    /\ worker[p].pc = "read"
    /\ phase # "exited"
    /\ IF worker[p].filename \in DOMAIN uploads
       THEN worker' = [worker EXCEPT ![p].pc = "install",
                                     ![p].code = uploads[worker[p].filename]]
       ELSE WorkerDone(p, "crashed", "read")
    /\ UNCHANGED <<uploads, processes, run, child, signalled, log, nextPid, thr, phase, SniffVars>>

\* 'flask' in ' '.join(requirements).lower(): no package name other than
\* Flask / flask contains the text
MentionsFlask(reqs) == \E i \in 1..Len(reqs) : LowerTok(reqs[i]) = "flask"

IsServerStyle(code) ==
    \/ \E reqs \in get_requirements_from_code(code) : MentionsFlask(reqs)
    \/ Contains(Lower(code), <<"app", ".", "run">>)

\* port = 5000 + len(processes)
AllocatePort == BasePort + Len(processes)

\* mutation: the failure is noticed but the worker goes on to launch
InstallFailed_Launches(p) ==
    /\ worker' = [worker EXCEPT ![p].pc = "launch", ![p].why = "install",
                    ![p].server = IsServerStyle(worker[p].code),
                    ![p].port = IF IsServerStyle(worker[p].code)
                                THEN BasePort + Len(processes) ELSE NoPort]
    /\ UNCHANGED log

\* if not install_requirements(requirements, pid): return False
InstallFailed(p) ==
    /\ WorkerDone(p, "False", "install")
    /\ UNCHANGED log

\* the branch taken at line 132, and the port read at line 134
ChooseMode(p) ==
    worker' = [worker EXCEPT ![p].pc = "launch",
                 ![p].server = IsServerStyle(worker[p].code),
                 ![p].port = IF IsServerStyle(worker[p].code) THEN AllocatePort ELSE NoPort]

\* pip returns: failure ends the worker, success goes on to pick the mode
install_requirements(p, ok) ==
    /\ worker[p].pc = "install"
    /\ phase # "exited"
    /\ IF ok THEN ChooseMode(p) /\ UNCHANGED log
             ELSE InstallFailed(p)
    /\ UNCHANGED <<uploads, processes, run, child, signalled, nextPid, thr, phase, SniffVars>>

\* processes[pid] = ManagedProcess(pid, filename, port)
Register(p) ==
    /\ run' = (p :> ManagedProcess(worker[p].filename, worker[p].port)) @@ run
    /\ processes' = IF p \in Registered THEN processes ELSE Append(processes, p)

\* mutation: the except branch returns False without writing the log
LaunchFailed_Silent(p) ==
    /\ WorkerDone(p, "False", "launch")
    /\ UNCHANGED <<log, child, run, processes>>

\* Popen raised: the except branch of run_python_file
LaunchFailed(p) ==
    /\ LogError(p)
    /\ WorkerDone(p, "False", "launch")
    /\ UNCHANGED <<child, run, processes>>

\* subprocess.Popen(...) returns and the run is registered, or Popen raises
Launch(p, ok) ==
    /\ worker[p].pc = "launch"
    /\ phase # "exited"
    /\ IF ok
       THEN /\ child' = [child EXCEPT ![p] = "alive"]
            /\ Register(p)
            /\ worker' = [worker EXCEPT ![p].pc = "sethandle"]
            /\ UNCHANGED log
       ELSE LaunchFailed(p)
    /\ UNCHANGED <<uploads, signalled, nextPid, thr, phase, SniffVars>>

\* processes[pid].process = process; [time.sleep(3);] return True
\* KeyError, caught by `except Exception`, when the key is gone
SetHandle(p) ==
    /\ worker[p].pc = "sethandle"
    /\ phase # "exited"
    /\ IF p \in Registered
       THEN /\ run' = [run EXCEPT ![p].process = p]
            /\ WorkerDone(p, "True", "")
            /\ UNCHANGED log
       ELSE /\ LogError(p)
            /\ WorkerDone(p, "False", "register")
            /\ UNCHANGED run
    /\ UNCHANGED <<uploads, processes, child, signalled, nextPid, thr, phase, SniffVars>>

\* the child process ends (by itself or after a signal it honours)
ChildExit(p) ==
    /\ child[p] = "alive"
    /\ child' = [child EXCEPT ![p] = "exited"]
    /\ UNCHANGED <<uploads, processes, run, signalled, log, worker, nextPid, thr, phase, SniffVars>>

(* -------------------------- request threads ---------------------------- *)
\* requests are numbered in the order they arrive
Arrives(t) ==
    /\ thr[t].pc = "idle"
    /\ \A u \in Thr : u < t => thr[u].pc # "idle"
    /\ phase = "up"

\* mutation: spawning is done on the serving thread, so no request is served
\* while a spawn is inside the installer
Step_WaitsForInstall(t, rec) ==
    /\ \A p \in PIDs : worker[p].pc # "install"
    /\ thr' = [thr EXCEPT ![t] = rec]
    /\ phase' = IF rec.kind = "cleanup" /\ rec.pc \in {"done", "raised"}
                THEN "exited" ELSE phase

\* the thread moves on; the interpreter exits when the atexit hook ends
Step(t, rec) ==
    /\ thr' = [thr EXCEPT ![t] = rec]
    /\ phase' = IF rec.kind = "cleanup" /\ rec.pc \in {"done", "raised"}
                THEN "exited" ELSE phase

Raise(t, e) == [thr[t] EXCEPT !.pc = "raised", !.exc = e]

\* what the caller does when stop() has returned True:
\*   stop_process flashes and redirects,
\*   delete_file and cleanup go on with the next item of their list,
\*   delete_file then removes the script
AfterStop(t) ==
    IF thr[t].kind = "stop"
    THEN [thr[t] EXCEPT !.pc = "done", !.flash = "stopped successfully"]
    ELSE IF thr[t].todo # <<>>
    THEN [thr[t] EXCEPT !.pc = "enter", !.pid = Head(thr[t].todo),
                        !.todo = Tail(thr[t].todo)]
    ELSE IF thr[t].kind = "delete"
    THEN [thr[t] EXCEPT !.pc = "rm"]
    ELSE [thr[t] EXCEPT !.pc = "done"]

(* -------------------------- ManagedProcess.stop ------------------------ *)
\* if self.pid in processes: (then del), else return True
CheckRegistered(t) ==
    IF thr[t].pid \in Registered
    THEN [thr[t] EXCEPT !.pc = "stop_del"]
    ELSE AfterStop(t)

\* os.killpg(os.getpgid(self.process.pid), signal.SIGTERM); self.process.terminate()
Terminate(p) ==
    signalled' = [signalled EXCEPT ![p] = (@ \/ child[p] = "alive")]

\* processes[pid] (stop_process only), then in stop(): `if self.process:`
\* and the signals, or straight to the registry check
Enter(t) ==
    /\ thr[t].pc = "enter"
    /\ phase # "exited"
    /\ IF thr[t].kind = "stop" /\ thr[t].pid \notin Registered
       THEN /\ Step(t, Raise(t, "KeyError"))
            /\ UNCHANGED signalled
       ELSE IF run[thr[t].pid].process # NoHandle
       THEN /\ Terminate(thr[t].pid)
            /\ Step(t, [thr[t] EXCEPT !.pc = "stop_wait"])
       ELSE /\ Step(t, CheckRegistered(t))
            /\ UNCHANGED signalled
    /\ UNCHANGED <<uploads, processes, run, child, log, worker, nextPid, SniffVars>>

\* self.process.wait(timeout=5) returns because the child has ended, or
\* times out and self.process.kill() is tried (AttributeError, swallowed,
\* when another stop has already cleared the handle);
\* finally: self.process = None; then `if self.pid in processes:`
StopWait(t) ==
    /\ thr[t].pc = "stop_wait"
    /\ phase # "exited"
    /\ LET p == thr[t].pid
       IN  /\ IF child[p] = "alive" /\ run[p].process # NoHandle
              THEN child' = [child EXCEPT ![p] = "exited"]
              ELSE UNCHANGED child
           /\ run' = [run EXCEPT ![p].process = NoHandle]
    /\ Step(t, CheckRegistered(t))
    /\ UNCHANGED <<uploads, processes, signalled, log, worker, nextPid, SniffVars>>

Remove(seq, p) == SelectSeq(seq, LAMBDA q : q # p)

\* del processes[self.pid]; return True
StopDel(t) ==
    /\ thr[t].pc = "stop_del"
    /\ phase # "exited"
    /\ IF thr[t].pid \in Registered
       THEN /\ processes' = Remove(processes, thr[t].pid)
            /\ Step(t, AfterStop(t))
       ELSE /\ Step(t, Raise(t, "KeyError"))
            /\ UNCHANGED processes
    /\ UNCHANGED <<uploads, run, child, signalled, log, worker, nextPid, SniffVars>>

(* ------------------------------ stop_process --------------------------- *)
\* mutation: stop_process does not test the key
Known_Always(p) == TRUE

\* `pid in processes`
Known(p) == p \in Registered

\* if pid in processes: ... else: flash('Process not found')
stop_process(t, p) ==
    /\ Arrives(t)
    /\ IF Known(p)
       THEN Step(t, [IdleThread EXCEPT !.kind = "stop", !.pid = p, !.pc = "enter"])
       ELSE Step(t, [IdleThread EXCEPT !.kind = "stop", !.pid = p, !.pc = "done",
                                       !.flash = "Process not found"])
    /\ UNCHANGED <<uploads, processes, run, child, signalled, log, worker, nextPid, SniffVars>>

(* ------------------------------ delete_file ---------------------------- *)
\* mutation: the loop stops after the first run of the script
RunsOf_FirstOnly(f) ==
    LET all == SelectSeq(processes, LAMBDA q : run[q].filename = f)
    IN  IF all = <<>> THEN <<>> ELSE <<Head(all)>>

\* the items of list(processes.items()) with proc.filename == filename
RunsOf(f) == SelectSeq(processes, LAMBDA q : run[q].filename = f)

\* for pid, proc in list(processes.items()): ... first item, or none
StartLoop(rec) ==
    IF rec.todo # <<>>
    THEN [rec EXCEPT !.pc = "enter", !.pid = Head(rec.todo), !.todo = Tail(rec.todo)]
    ELSE [rec EXCEPT !.pc = IF rec.kind = "delete" THEN "rm" ELSE "done"]

delete_file(t, f) ==
    /\ Arrives(t)
    /\ Step(t, StartLoop([IdleThread EXCEPT !.kind = "delete", !.file = f,
                             !.todo = RunsOf(f),
                             !.snap = {q \in Registered : run[q].filename = f}]))
    /\ UNCHANGED <<uploads, processes, run, child, signalled, log, worker, nextPid, SniffVars>>

\* if os.path.exists(filepath): os.remove(filepath) else: flash('File not found')
RemoveFile(t) ==
    /\ thr[t].pc = "rm"
    /\ phase # "exited"
    /\ uploads' = [g \in DOMAIN uploads \ {thr[t].file} |-> uploads[g]]
    /\ Step(t, [thr[t] EXCEPT !.pc = "done", !.mark = nextPid,
                   !.flash = IF thr[t].file \in DOMAIN uploads
                             THEN "deleted successfully" ELSE "File not found"])
    /\ UNCHANGED <<processes, run, child, signalled, log, worker, nextPid, SniffVars>>

(* -------------------------------- cleanup ------------------------------ *)
\* atexit: for pid, proc in list(processes.items()): proc.stop()
cleanup(t) ==
    /\ Arrives(t)
    /\ LET rec == StartLoop([IdleThread EXCEPT !.kind = "cleanup",
                                !.todo = processes, !.snap = Registered])
       IN  /\ thr' = [thr EXCEPT ![t] = rec]
           /\ phase' = IF rec.pc = "done" THEN "exited" ELSE "cleanup"
    /\ UNCHANGED <<uploads, processes, run, child, signalled, log, worker, nextPid, SniffVars>>

(* ---------------------------- api_processes ---------------------------- *)
\* Popen.poll(): None while the child has not ended
Poll(h) == IF child[h] = "alive" THEN "None" ELSE "returncode"

\* mutation: a run counts as running as long as it has a handle
Running_HandleOnly(p) == run[p].process # NoHandle

\* proc.process and proc.process.poll() is None
Running(p) == run[p].process # NoHandle /\ Poll(run[p].process) = "None"

\* the list the endpoint answers with, in the present state
api_processes ==
    [i \in 1..Len(processes) |->
        [pid |-> processes[i], filename |-> run[processes[i]].filename,
         port |-> run[processes[i]].port, running |-> Running(processes[i])]]

(* --------------------------- specification ----------------------------- *)
Handler(t) ==
    \/ \E p \in PIDs : stop_process(t, p)
    \/ \E f \in Filenames : delete_file(t, f)
    \/ cleanup(t)
    \/ Enter(t)
    \/ StopWait(t)
    \/ StopDel(t)
    \/ RemoveFile(t)

Worker(p) ==
    \/ ReadScript(p)
    \/ \E ok \in BOOLEAN : install_requirements(p, ok)
    \/ \E ok \in BOOLEAN : Launch(p, ok)
    \/ SetHandle(p)

Next ==
    \/ nextPid <= MaxRuns /\ \E f \in Filenames : upload_file(f)
    \/ nextPid <= MaxRuns /\ \E f \in Filenames : start_file(f)
    \/ \E p \in PIDs : Worker(p)
    \/ \E p \in PIDs : ChildExit(p)
    \/ \E t \in Thr : Handler(t)

Spec == Init /\ [][Next]_vars

(* --------------------- scheduling assumptions -------------------------- *)
\* a request thread that can take its next statement takes it
HandlerStep(t) == Enter(t) \/ StopWait(t) \/ StopDel(t) \/ RemoveFile(t)

\* a worker outside the installer goes on: open() and Popen() return or
\* raise, line 150 runs; subprocess.run of pip (line 105) has no timeout and
\* may never return, so install_requirements gets no fairness
WorkerStep(p) == ReadScript(p) \/ (\E ok \in BOOLEAN : Launch(p, ok)) \/ SetHandle(p)

Fairness ==
    /\ \A t \in Thr : WF_vars(HandlerStep(t))
    /\ \A p \in PIDs : WF_vars(WorkerStep(p))

SpecLive == Spec /\ Fairness

(* ------------------ one operation after another ------------------------ *)
\* no worker and no request is under way
Quiet ==
    /\ \A p \in PIDs : worker[p].pc \in {"idle", "done"}
    /\ \A t \in Thr : thr[t].pc \in {"idle", "done", "raised"}

\* a spawn, stop or delete is taken up only when the one before it has
\* finished, its worker included; children end when they like
NextSeq ==
    \/ Quiet /\ \E f \in Filenames : upload_file(f)
    \/ Quiet /\ \E f \in Filenames : start_file(f)
    \/ Quiet /\ \E t \in Thr : \E p \in PIDs : stop_process(t, p)
    \/ Quiet /\ \E t \in Thr : \E f \in Filenames : delete_file(t, f)
    \/ \E p \in PIDs : Worker(p)
    \/ \E t \in Thr : HandlerStep(t)
    \/ \E p \in PIDs : ChildExit(p)

SpecSeq == Init /\ [][NextSeq]_vars

(* ------------------- the sniffer on its own ---------------------------- *)
SniffLines ==
    { <<"print", "(", "hi", ")">>,
      <<"import", " ", "flask">>,
      <<"from", " ", "flask", " ", "import", " ", "Flask">>,
      <<"import", " ", "requests">>,
      <<"import", " ", "os">>,
      <<"import", " ", "requests", ",", " ", "os">>,
      <<"import", " ", "flask", ".", "cli">>,
      <<" ", " ", "import", " ", "sklearn", " ">>,
      <<"import", "\t", "requests">>,
      <<"import">>,
      <<"app", ".", "run", "(", ")">>,
      <<"from", " ", ".", " ", "import", " ", "x">>,
      <<"#", " ", "import", " ", "flask">> }

\* '\n'.join(lines)
RECURSIVE JoinLines(_)
JoinLines(lines) ==
    IF lines = <<>> THEN <<>>
    ELSE IF Len(lines) = 1 THEN lines[1]
    ELSE lines[1] \o <<"\n">> \o JoinLines(Tail(lines))

SniffCodes ==
    {JoinLines(ls) : ls \in UNION {[1..n -> SniffLines] : n \in 0..MaxLines}}

InitSniff ==
    /\ InitProgram
    /\ sniffIn \in SniffCodes
    /\ sniffOut = <<>>

\* requirements = get_requirements_from_code(code)
Sniff ==
    /\ sniffOut = <<>>
    /\ sniffOut' \in get_requirements_from_code(sniffIn)
    /\ UNCHANGED <<uploads, processes, run, child, signalled, log, worker, nextPid,
                   thr, phase, sniffIn>>

NextSniff == Sniff

SpecSniff == InitSniff /\ [][NextSniff]_vars

(* ------------------------------- claims -------------------------------- *)
NoDuplicates(q) == \A i, j \in 1..Len(q) : q[i] = q[j] => i = j

\* C1: once a stop request on a registered identity has returned, the
\* identity is absent from the registry and the run's process handle is
\* cleared.
C1_StopRemovesRunAndClearsHandle ==
    \A t \in Thr :
        (thr[t].kind = "stop" /\ thr[t].pc = "done"
            /\ thr[t].flash = "stopped successfully")
        => (thr[t].pid \notin Registered /\ run[thr[t].pid].process = NoHandle)

\* what the claims call an import-style line, and the module it names:
\* the keyword, white space, then the dotted name up to its first separator
Separators == {" ", "\t", "\n", ".", ",", "=", "(", ")", "#"}

RECURSIVE NamePrefix(_)
NamePrefix(s) ==
    IF s = <<>> \/ Head(s) \in Separators THEN <<>>
    ELSE <<Head(s)>> \o NamePrefix(Tail(s))

ImportStyle(rawline) ==
    LET l == Strip(rawline)
    IN  Len(l) >= 2 /\ l[1] \in {"import", "from"} /\ IsSpace(l[2])

NamedModule(rawline) == NamePrefix(LStrip(Tail(Strip(rawline))))

RecognizedModules(code) ==
    LET lines == SplitOn(code, {"\n"})
    IN  {NamedModule(lines[i])[1] : i \in
            {j \in 1..Len(lines) : /\ ImportStyle(lines[j])
                                   /\ Len(NamedModule(lines[j])) = 1
                                   /\ NamedModule(lines[j])[1] \in DOMAIN common_imports}}

ExpectedPackages(code) ==
    IF RecognizedModules(code) = {} THEN {DefaultRequirement}
    ELSE {common_imports[m] : m \in RecognizedModules(code)}

HasServerStart(code) == Contains(Lower(code), <<"app", ".", "run">>)

\* C2: a run registered for a script with no recognized import line and no
\* server-start text was spawned as a plain batch run and has no port.
C2_PlainScriptRunsAsBatchWithoutPort ==
    \A p \in Registered :
        (worker[p].pc # "idle" /\ RecognizedModules(worker[p].code) = {}
            /\ ~HasServerStart(worker[p].code))
        => (~worker[p].server /\ run[p].port = NoPort)

\* C3: when the dependency installation of a spawn has failed and the worker
\* has finished, the run's log file holds error text.
C3_InstallFailureIsLogged ==
    \A p \in PIDs : worker[p].why = "install" => log[p] # <<>>

\* C4: when the dependency installation of a spawn fails, the worker returns
\* failure, no child is launched for the run and the run is never registered.
C4_InstallFailureLaunchesNothing ==
    \A p \in PIDs :
        worker[p].why = "install"
        => /\ worker[p].pc = "done"
           /\ worker[p].result = "False"
           /\ child[p] = "none"
           /\ p \notin Registered
           /\ p \notin DOMAIN run

C4_Witness ==
    \E p, q \in PIDs :
        /\ worker[p].pc = "done" /\ worker[p].why = "install"
        /\ q \in Registered

\* C5: at the step that completes a delete request, every run that was
\* registered for the filename when the request began is absent from the
\* registry and the stored script is gone.
C5_DeleteStopsEveryRunOfTheScript ==
    [][\A t \in Thr :
          (thr[t].kind = "delete" /\ thr[t].pc # "done" /\ thr'[t].pc = "done")
          => /\ thr[t].snap \cap Range(processes') = {}
             /\ thr[t].file \notin DOMAIN uploads']_vars

C5_Witness ==
    \E t \in Thr :
        /\ thr[t].kind = "delete" /\ thr[t].pc = "done"
        /\ Cardinality(thr[t].snap) = 2
        /\ thr[t].flash = "deleted successfully"

\* C6: a stop request for an identity that is not in the registry answers
\* "not found", raises nothing, sends no signal and changes neither the
\* registry nor any run.
C6_StopOfUnknownIdentityIsNoOp ==
    [][\A t \in Thr :
          (thr[t].pc = "idle" /\ thr'[t].kind = "stop" /\ thr'[t].pid \notin Registered)
          => /\ thr'[t].pc = "done"
             /\ thr'[t].flash = "Process not found"
             /\ thr'[t].exc = ""
             /\ UNCHANGED <<processes, run, child, signalled, uploads, log, worker>>]_vars

\* a second stop of a run that an earlier stop has removed
C6_Witness ==
    \E t, u \in Thr :
        /\ thr[u].kind = "stop" /\ thr[u].flash = "stopped successfully"
        /\ thr[t].kind = "stop" /\ thr[t].flash = "Process not found"
        /\ thr[t].pid = thr[u].pid

\* C7: no exception escapes a stop request, a delete request or the shutdown
\* cleanup, however they interleave.
C7_NoStopRaises ==
    \A t \in Thr : thr[t].pc # "raised" /\ thr[t].exc = ""

\* C8: a run is registered only after its child was launched; when the launch
\* (or the registration that follows it) raises, the worker returns failure,
\* the error text is in the run's log and the identity is not registered.
C8_LaunchFailureIsLoggedAndUnregistered ==
    \A p \in PIDs :
        /\ p \in Registered => child[p] # "none"
        /\ worker[p].why \in {"launch", "register"}
           => /\ worker[p].result = "False"
              /\ log[p] # <<>>
              /\ p \notin Registered
        /\ worker[p].why = "launch" => (child[p] = "none" /\ p \notin DOMAIN run)

C8_Witness ==
    \E p \in PIDs : worker[p].pc = "done" /\ worker[p].why = "launch"

\* what a status poll reports for a registered run
Reported(p) ==
    \E i \in DOMAIN api_processes :
        api_processes[i].pid = p /\ api_processes[i].running

\* C9: a registered run is reported running exactly when it has a handle and
\* its child has not ended; a child that ends turns the report to not running
\* and leaves the run registered; only the `del` of a stop (from a stop
\* request, a delete or the cleanup) takes a run out of the registry.
C9_StatusIsAPointInTimePoll ==
    [][/\ \A p \in Range(processes') :
             Reported(p)' <=> (run'[p].process # NoHandle
                                /\ child'[run'[p].process] = "alive")
       /\ \A p \in Registered :
             (Reported(p) /\ child'[p] = "exited" /\ run'[p].process # NoHandle)
             => (p \in Range(processes') /\ ~Reported(p)')
       /\ \A p \in Registered :
             p \notin Range(processes')
             => \E t \in Thr : /\ thr[t].pc = "stop_del" /\ thr[t].pid = p
                               /\ thr[t].kind \in {"stop", "delete", "cleanup"}
                               /\ thr'[t].pc # "stop_del"]_vars

\* a registered run whose child has ended by itself: reported not running
C9_Witness ==
    \E p \in Registered :
        /\ run[p].process # NoHandle
        /\ child[p] = "exited" /\ ~signalled[p]
        /\ ~Reported(p)

\* C10: the sniffer's result has no duplicates and is exactly the set of
\* packages mapped from the recognized modules named on the script's
\* import-style lines, or the single default package when there is none.
C10_SnifferFindsEveryNamedModule ==
    sniffOut # <<>>
    => (NoDuplicates(sniffOut) /\ Range(sniffOut) = ExpectedPackages(sniffIn))

\* C11: when the shutdown cleanup has finished, every run that was in the
\* registry when it started is out of the registry and has its handle
\* cleared, also when the stop of another run did not go through.
C11_CleanupStopsEveryRegisteredRun ==
    \A t \in Thr :
        (thr[t].kind = "cleanup" /\ thr[t].pc \in {"done", "raised"})
        => \A p \in thr[t].snap : p \notin Registered /\ run[p].process = NoHandle

\* C12: no two runs that are in the registry together have the same
\* allocated port.
C12_RegisteredPortsAreUnique ==
    \A p, q \in Registered :
        (p # q /\ run[p].port # NoPort /\ run[q].port # NoPort)
        => run[p].port # run[q].port

\* C13: a run carries a port exactly when its worker took the server-style
\* branch; the port is the one the worker computed, and the worker computes
\* 5000 plus the number of entries the registry holds at that moment, whatever
\* the state of their children; a batch-style worker computes none.
C13_PortIffServerStyle ==
    [][\A p \in PIDs :
          /\ (worker[p].pc = "install" /\ worker'[p].pc = "launch")
             => worker'[p].port = IF worker'[p].server
                                  THEN BasePort + Cardinality(Registered)
                                  ELSE NoPort
          /\ p \in DOMAIN run'
             => /\ run'[p].port = worker'[p].port
                /\ run'[p].port # NoPort <=> worker'[p].server]_vars

\* a batch run whose child has ended, and a server-style run registered after
\* it with the port that counts the batch run's entry
C13_Witness ==
    \E p, q \in Registered :
        /\ p > q
        /\ ~worker[q].server /\ run[q].port = NoPort /\ child[q] = "exited"
        /\ worker[p].server /\ run[p].port = BasePort + 1

\* a request that was taken up and has not returned; a worker that is neither
\* in the installer nor finished
InFlight(t) == thr[t].pc \in {"enter", "stop_wait", "stop_del", "rm"}

Spawning(p) == worker[p].pc \in {"read", "launch", "sethandle"}

\* C14: an upload or start request returns with its worker only started; a
\* worker that has not left the installer has registered nothing; and while
\* workers sit in the installer forever, the requests that were taken up and
\* the workers outside the installer all run to their end, again and again
\* (or the program has exited).
C14_SpawnIsDetached ==
    /\ [][nextPid' # nextPid
          => /\ worker'[nextPid].pc = "read"
             /\ processes' = processes /\ run' = run /\ child' = child]_vars
    /\ [](\A p \in PIDs : worker[p].pc \in {"read", "install"}
                          => (p \notin Registered /\ p \notin DOMAIN run
                              /\ child[p] = "none"))
    /\ []<>(\/ phase = "exited"
            \/ /\ \A t \in Thr : ~InFlight(t)
               /\ \A p \in PIDs : ~Spawning(p))

\* one worker is inside the installer while a stop request has been served
\* and the other worker has finished its spawn
C14_Witness ==
    \E p, q \in PIDs : \E t \in Thr :
        /\ worker[p].pc = "install"
        /\ worker[q].pc = "done" /\ worker[q].result = "True"
        /\ thr[t].kind = "stop" /\ thr[t].pc = "done" /\ thr[t].pid = q
        /\ thr[t].flash = "stopped successfully"

\* C15: once a worker has finished, a child it launched that is still alive
\* and was never sent a signal is registered under the worker's identity with
\* its handle set.
C15_NoUntrackedChild ==
    \A p \in PIDs :
        (worker[p].pc = "done" /\ child[p] = "alive" /\ ~signalled[p])
        => (p \in Registered /\ run[p].process = p)

\* C16: once a delete request for a script has returned, every run of that
\* script found in the registry belongs to a worker that an upload or start
\* request started after the delete returned.
C16_DeleteIsFinal ==
    \A t \in Thr :
        (thr[t].kind = "delete" /\ thr[t].pc = "done")
        => \A p \in Registered :
              run[p].filename = thr[t].file => p >= thr[t].mark

\* C17: when every spawn, stop and delete finishes before the next one
\* starts, the server-style runs listed in the registry have pairwise
\* different ports.
C17_SequentialPortsAreUnique ==
    \A i, j \in 1..Len(processes) :
        (i < j /\ worker[processes[i]].server /\ worker[processes[j]].server)
        => run[processes[i]].port # run[processes[j]].port

\* C18: a registered run whose child is alive, and which no stop has taken
\* up, has its handle set and is reported running.
C18_RegisteredRunHasHandle ==
    \A p \in Registered :
        (/\ child[p] = "alive"
         /\ ~signalled[p]
         /\ \A t \in Thr : ~(thr[t].pid = p /\ thr[t].kind # "none")
         /\ \A t \in Thr : \A i \in 1..Len(thr[t].todo) : thr[t].todo[i] # p)
        => (run[p].process = p /\ Reported(p))

====
